---- MODULE Spec2Model ----
(***************************************************************************)
(* trcls: annotation of RNA-seq read alignments with their splice variant  *)
(* of origin.  Model of splice_list.py (SpliceList, Region, Junction),     *)
(* transcript.py (Transcript, read grouping) and annotations.py.           *)
(*                                                                         *)
(* Python objects with identity (Junction) carry an `id` field; a          *)
(* reference to a Junction (Junction.complement) is the id of the target,  *)
(* None being the empty tuple.  Iteration over a Python set has no         *)
(* specified order: wherever the code iterates a set without sorting it,   *)
(* the order is a nondeterministic input of the operation.                 *)
(***************************************************************************)
EXTENDS Integers, Sequences, FiniteSets, TLC

VARIABLES pc, args, ret, segments, variants, merged, calls

vars == <<pc, args, ret, segments, variants, merged, calls>>

-----------------------------------------------------------------------------
(* Bounds of the model *)

MaxPos == 3

MaxSegs == 3

MaxSegLen == 1

MaxExons == 3

MaxTol == 2

MaxLines == 3

-----------------------------------------------------------------------------
(* Generic helpers *)

None == <<>>

Range(s) == {s[i] : i \in 1..Len(s)}

Min(S) == CHOOSE x \in S : \A y \in S : x <= y

Abs(x) == IF x < 0 THEN -x ELSE x

\* the sequences over S of length 0..n
SeqsUpTo(S, n) == UNION {[1..k -> S] : k \in 0..n}

\* list(filter(test, s)) for a test given as the set of passing elements
RECURSIVE FilterSeq(_, _)
FilterSeq(s, keep) ==
    IF s = <<>> THEN <<>>
    ELSE (IF Head(s) \in keep THEN <<Head(s)>> ELSE <<>>) \o FilterSeq(Tail(s), keep)

\* ascending list of a set of integers: sorted(list(S))
RECURSIVE SortedList(_)
SortedList(S) ==
    IF S = {} THEN <<>>
    ELSE LET m == Min(S) IN <<m>> \o SortedList(S \ {m})

-----------------------------------------------------------------------------
(* Region and Junction *)

TYPE_START == 0

TYPE_END == 1

Region(start, stop) == [kind |-> "Region", start |-> start, stop |-> stop]

\* Junction.__init__: complement None, has_complement False
Junction(position, type, id) ==
    [kind |-> "Junction", position |-> position, type |-> type,
     complement |-> None, has_complement |-> FALSE, id |-> id]

IsRegion(c) == c.kind = "Region"

IsJunction(c) == c.kind = "Junction"

\* set(range(r.start, r.stop+1))
RegionPositions(r) == r.start .. r.stop

\* set.union(*[set(range(r.start, r.stop+1)) for r in regions])
Positions(regions) == UNION {RegionPositions(regions[i]) : i \in 1..Len(regions)}

-----------------------------------------------------------------------------
(* SpliceList.__init__ *)

\* an exon is a pair <<start, stop>>
Exon(start, stop) == <<start, stop>>

\* insertion of x into a list sorted by Key, behind every element whose key is
\* not greater: the step of Python's stable sorted()
RECURSIVE InsertKeyed(_, _)
InsertKeyed(s, x) ==
    IF s = <<>> THEN <<x>>
    ELSE IF s[1][1] <= x[1] THEN <<s[1]>> \o InsertKeyed(Tail(s), x)
    ELSE <<x>> \o s

\* sorted(pairs, key=lambda p: p[0]) for pairs <<key, item>>; stable
RECURSIVE SortKeyed(_)
SortKeyed(s) ==
    IF s = <<>> THEN <<>>
    ELSE InsertKeyed(SortKeyed(SubSeq(s, 1, Len(s) - 1)), s[Len(s)])

\* sorted(exons, key=lambda pair: pair[0])
SortedExons(exons) ==
    LET keyed == SortKeyed([i \in 1..Len(exons) |-> <<exons[i][1], exons[i]>>])
    IN  [i \in 1..Len(exons) |-> keyed[i][2]]

\* a check that lets two exons share a position
OverlappingExonsStrict(exons) ==
    \E i \in 1..(Len(exons) - 1) : exons[i][2] > exons[i + 1][1]

\* the check that raises OverlappingExonsError, on the sorted list
OverlappingExons(exons) ==
    \E i \in 1..(Len(exons) - 1) : exons[i][2] >= exons[i + 1][1]

\* the outcome of a call that raises: the exception's name, in a tuple so that
\* it compares with None
Raise(error) == [raised |-> <<error>>]

\* the record of a SpliceList object; regions and junctions are the filtered
\* views of components
SpliceList(identifier, components) ==
    [raised |-> None, identifier |-> identifier, components |-> components,
     regions |-> FilterSeq(components, {c \in Range(components) : IsRegion(c)}),
     junctions |-> FilterSeq(components, {c \in Range(components) : IsJunction(c)})]

\* components whose junctions have the two types exchanged
ExonComponentsSwapped(exons, heap) ==
    [i \in 1..(3 * Len(exons)) |->
        LET exon == exons[(i + 2) \div 3] IN
        CASE i % 3 = 1 -> Junction(exon[1], TYPE_END, <<heap, i>>)
          [] i % 3 = 2 -> Region(exon[1], exon[2])
          [] OTHER     -> Junction(exon[2], TYPE_START, <<heap, i>>)]

\* Junction, Region, Junction for each exon of the sorted list; the Junction
\* objects created by the constructor instance `heap` are <<heap, 1>>, ...
ExonComponents(exons, heap) ==
    [i \in 1..(3 * Len(exons)) |->
        LET exon == exons[(i + 2) \div 3] IN
        CASE i % 3 = 1 -> Junction(exon[1], TYPE_START, <<heap, i>>)
          [] i % 3 = 2 -> Region(exon[1], exon[2])
          [] OTHER     -> Junction(exon[2], TYPE_END, <<heap, i>>)]

\* SpliceList(identifier, exons, set_left_junction, set_right_junction)
SpliceListInit(identifier, exons, set_left_junction, set_right_junction, heap) ==
    LET sorted == SortedExons(exons)
        all == ExonComponents(sorted, heap)
        left == IF set_left_junction
                THEN [all EXCEPT ![1].has_complement = TRUE]
                ELSE SubSeq(all, 2, Len(all))
        both == IF set_right_junction
                THEN [left EXCEPT ![Len(left)].has_complement = TRUE]
                ELSE SubSeq(left, 1, Len(left) - 1)
    IN  IF OverlappingExons(sorted) THEN Raise("OverlappingExonsError")
        ELSE IF exons = <<>> /\ (set_left_junction \/ set_right_junction)
        THEN Raise("IndexError")
        ELSE SpliceList(identifier, both)

-----------------------------------------------------------------------------
(* SpliceList.contains *)

\* list(S) for a set S of positions. CPython iterates a set of small integers
\* in the order of their hash slots, the value modulo the table size, so a run
\* of consecutive positions that crosses a multiple of the table size comes
\* out rotated, not ascending. The positions 1..MaxPos stand for the
\* coordinates base + 1 .. base + MaxPos and the table has MaxPos slots.
HashSlot(pos, base) == (pos + base) % MaxPos

RECURSIVE SetList(_, _)
SetList(S, base) ==
    IF S = {} THEN <<>>
    ELSE LET first == CHOOSE x \in S :
                        \A y \in S : HashSlot(x, base) <= HashSlot(y, base)
         IN  <<first>> \o SetList(S \ {first}, base)

\* other_regions.difference(this_regions)
Overhangs(self, other_sl) == Positions(other_sl.regions) \ Positions(self.regions)

\* the loop over list(overhangs): TRUE when it returns False, i.e. when the run
\* counter passes junction_tolerance at some element
RECURSIVE OverhangLoop(_, _, _, _)
OverhangLoop(overhangs, max_overhang_distance, last_position, junction_tolerance) ==
    IF overhangs = <<>> THEN FALSE
    ELSE LET pos == Head(overhangs)
             distance == IF pos - last_position = 1
                         THEN max_overhang_distance + 1 ELSE 1
         IN  IF distance > junction_tolerance THEN TRUE
             ELSE OverhangLoop(Tail(overhangs), distance, pos, junction_tolerance)

\* a matching that does not compare the types
JunctionMatchesAnyType(self, j, junction_tolerance) ==
    LET hit == {i \in 1..Len(self.junctions) :
                   self.junctions[i].position
                        \in (j.position - junction_tolerance)
                            .. (j.position + junction_tolerance)}
    IN  SortedList({i - 1 : i \in hit})

\* the indices i (from 0, ascending) of the junctions of self that match j:
\* same type and position in range(j.position - tol, j.position + tol + 1)
JunctionMatches(self, j, junction_tolerance) ==
    LET hit == {i \in 1..Len(self.junctions) :
                   /\ self.junctions[i].type = j.type
                   /\ self.junctions[i].position
                        \in (j.position - junction_tolerance)
                            .. (j.position + junction_tolerance)}
    IN  SortedList({i - 1 : i \in hit})

\* match_order after the loop over other_sl.junctions: every matching index of
\* every junction whose complement is set
RECURSIVE MatchOrder(_, _, _)
MatchOrder(self, junctions, junction_tolerance) ==
    IF junctions = <<>> THEN <<>>
    ELSE (IF Head(junctions).complement # None
          THEN JunctionMatches(self, Head(junctions), junction_tolerance)
          ELSE <<>>)
         \o MatchOrder(self, Tail(junctions), junction_tolerance)

\* the loop for i in range(0, len(match_order)-1, 2) returns False
ComplementLoop(match_order) ==
    \E i \in 0..(Len(match_order) - 2) :
        /\ i % 2 = 0
        /\ Abs(match_order[i + 1] - match_order[i + 2]) > 1

\* self.contains(other_sl, junction_tolerance), the positions being the
\* coordinates base + position
Contains(self, other_sl, junction_tolerance, base) ==
    IF OverhangLoop(SetList(Overhangs(self, other_sl), base), 0, -1,
                    junction_tolerance)
    THEN FALSE
    ELSE IF \E k \in 1..Len(other_sl.junctions) :
                JunctionMatches(self, other_sl.junctions[k], junction_tolerance) = <<>>
    THEN FALSE
    ELSE ~ComplementLoop(MatchOrder(self, other_sl.junctions, junction_tolerance))

-----------------------------------------------------------------------------
(* SpliceList.join, SpliceList.join_many *)

\* the loop over mapped that closes a run at every gap; exons so far, start
\* and last as in the code (start = 0 stands for None, positions being >= 1)
RECURSIVE MergeLoop(_, _, _, _)
MergeLoop(mapped, exons, start, last) ==
    IF mapped = <<>> THEN <<exons, start, last>>
    ELSE LET pos == Head(mapped) IN
         IF start = 0 THEN MergeLoop(Tail(mapped), exons, pos, pos)
         ELSE IF pos - last = 1 THEN MergeLoop(Tail(mapped), exons, start, last + 1)
         ELSE MergeLoop(Tail(mapped), Append(exons, <<start, last>>), pos, pos)

\* one exon from the first to the last mapped position
MergedExonsSpan(mapped) == <<<<mapped[1], mapped[Len(mapped)]>>>>

\* exons after the for ... else: the else branch appends [start, pos], pos
\* being the last element of mapped
MergedExons(mapped) ==
    LET out == MergeLoop(mapped, <<>>, 0, 0)
    IN  Append(out[1], <<out[2], mapped[Len(mapped)]>>)

\* a filter that keeps every junction
KeptJunctionsAll(order, mapped) == order

\* the junctions kept by the loop over the set _junctions, in iteration order
RECURSIVE KeptJunctions(_, _)
KeptJunctions(order, mapped) ==
    IF order = <<>> THEN <<>>
    ELSE LET j == Head(order)
             keep == \/ j.type = TYPE_START /\ (j.position - 1) \notin mapped
                     \/ j.type = TYPE_END /\ (j.position + 1) \notin mapped
         IN  (IF keep THEN <<j>> ELSE <<>>) \o KeptJunctions(Tail(order), mapped)

ComponentKey(c) == IF IsRegion(c) THEN c.start ELSE c.position

\* components left as they were concatenated
SortedComponentsUnsorted(components) == components

\* sorted(components, key=...)
SortedComponents(components) ==
    LET keyed == SortKeyed([i \in 1..Len(components) |->
                               <<ComponentKey(components[i]), components[i]>>])
    IN  [i \in 1..Len(components) |-> keyed[i][2]]

\* an identifier that is always the concatenation
JoinIdentifierConcat(sl1, sl2) == sl1.identifier \o "," \o sl2.identifier

JoinIdentifier(sl1, sl2) ==
    IF sl1.identifier = sl2.identifier THEN sl1.identifier
    ELSE sl1.identifier \o "," \o sl2.identifier

\* SpliceList.join(sl1, sl2), the set _junctions being iterated in `order`
Join(sl1, sl2, order) ==
    IF sl1.regions \o sl2.regions = <<>> THEN Raise("TypeError")
    ELSE
    LET mapped == Positions(sl1.regions \o sl2.regions)
        exons == MergedExons(SortedList(mapped))
        regions == [i \in 1..Len(exons) |-> Region(exons[i][1], exons[i][2])]
        junctions == KeptJunctions(order, mapped)
        components == SortedComponents(regions \o junctions)
    IN  SpliceList(JoinIdentifier(sl1, sl2), components)

\* set(sl1.junctions).union(sl2.junctions)
JunctionUnion(sl1, sl2) == Range(sl1.junctions) \cup Range(sl2.junctions)

\* list(S) for a set S of Junction objects. A Junction hashes by its address,
\* so the order follows the addresses of the objects: the model takes them
\* in the order of their allocation, or in the reverse of it.
Before(j, k) == j.id[1] < k.id[1] \/ (j.id[1] = k.id[1] /\ j.id[2] < k.id[2])

RECURSIVE ObjectList(_, _)
ObjectList(S, reverse) ==
    IF S = {} THEN <<>>
    ELSE LET first == CHOOSE j \in S : \A k \in S \ {j} :
                        IF reverse THEN Before(k, j) ELSE Before(j, k)
         IN  <<first>> \o ObjectList(S \ {first}, reverse)

\* the SpliceLists join(sl1, sl2) can return
JoinResults(sl1, sl2) ==
    {Join(sl1, sl2, ObjectList(JunctionUnion(sl1, sl2), reverse)) :
        reverse \in BOOLEAN}

\* the SpliceLists join_many(*sls) can return: the left fold of join
RECURSIVE JoinManyResults(_)
JoinManyResults(sls) ==
    IF Len(sls) = 1 THEN {sls[1]}
    ELSE UNION {JoinResults(joined, sls[Len(sls)]) :
                   joined \in JoinManyResults(SubSeq(sls, 1, Len(sls) - 1))}

-----------------------------------------------------------------------------
(* Transcript.__init__ *)

\* An alignment is given by what Segment.__init__ takes from its SAM line:
\* the QNAME and the value of _get_region_list (the region list and the two
\* endpoint flags).
Alignment(qname, region_list, left, right) ==
    [qname |-> qname, region_list |-> region_list,
     set_left_junction |-> left, set_right_junction |-> right]

\* Segment.__init__ raises NoMappingError
NoMapping(alignment) == alignment.region_list = <<>>

\* Segment(alignment).splice_list; the k-th Segment of the Transcript owns
\* the Junction objects <<k, 1>>, <<k, 2>>, ...
SegmentSpliceList(alignment, k) ==
    SpliceListInit(alignment.qname, alignment.region_list,
                   alignment.set_left_junction, alignment.set_right_junction, k)

\* a wiring that sets the complement of the first junction of a pair only
ComplementWiringOneWay(components, i) ==
    [k \in 1..Len(components) |->
        IF /\ k < Len(components)
           /\ IsJunction(components[k]) /\ IsJunction(components[k + 1])
           /\ components[k].type # components[k + 1].type
           /\ components[k].has_complement /\ components[k + 1].has_complement
        THEN [components[k] EXCEPT !.complement = components[k + 1].id]
        ELSE components[k]]

\* the loop over the adjacent pairs of the concatenated components, from i
RECURSIVE ComplementWiring(_, _)
ComplementWiring(components, i) ==
    IF i > Len(components) - 1 THEN components
    ELSE LET a == components[i]
             b == components[i + 1]
         IN  IF IsRegion(a) \/ IsRegion(b) THEN ComplementWiring(components, i + 1)
             ELSE IF a.type # b.type /\ a.has_complement /\ b.has_complement
             THEN ComplementWiring(
                      [components EXCEPT ![i].complement = b.id,
                                         ![i + 1].complement = a.id], i + 1)
             ELSE ComplementWiring(components, i + 1)

\* [c for c_list in c_lists for c in c_list]
RECURSIVE Flatten(_)
Flatten(lists) ==
    IF lists = <<>> THEN <<>> ELSE Head(lists) \o Flatten(Tail(lists))

\* the number of components before those of the k-th list
RECURSIVE Offset(_, _)
Offset(lists, k) ==
    IF k = 1 THEN 0 ELSE Len(lists[k - 1]) + Offset(lists, k - 1)

\* Transcript(sam_alignments).segments as the list of the segments' SpliceLists,
\* the Junction objects being shared between the segments' components and the
\* concatenation that the wiring loop updates
TranscriptInit(sam_alignments) ==
    LET mapping == FilterSeq(sam_alignments,
                             {a \in Range(sam_alignments) : ~NoMapping(a)})
        built == [k \in 1..Len(mapping) |-> SegmentSpliceList(mapping[k], k)]
        c_lists == [k \in 1..Len(built) |-> built[k].components]
        wired == ComplementWiring(Flatten(c_lists), 1)
    IN  IF mapping = <<>> THEN Raise("NoMappedSegmentsError")
        ELSE [raised |-> None,
              segments |->
                [k \in 1..Len(built) |->
                    SpliceList(built[k].identifier,
                               SubSeq(wired, Offset(c_lists, k) + 1,
                                      Offset(c_lists, k) + Len(c_lists[k])))]]

-----------------------------------------------------------------------------
(* Inputs *)

Pos == 1..MaxPos

ExonSet == {e \in Pos \X Pos : e[1] <= e[2]}

\* the region lists _get_region_list returns: ascending, two consecutive
\* regions separated by at least one skipped position
RegionLists ==
    {s \in SeqsUpTo(ExonSet, MaxPos) :
        /\ s # <<>>
        /\ \A i \in 1..(Len(s) - 1) : s[i][2] + 1 < s[i + 1][1]}

\* the exon lists of an annotated transcript that Annotations accepts
ExonLists ==
    {s \in SeqsUpTo(ExonSet, MaxPos) :
        /\ s # <<>>
        /\ \A i \in 1..(Len(s) - 1) : s[i][2] < s[i + 1][1]}

\* the alignments of a read: mapped over a region list with either endpoint
\* soft-clipped or not, or without a region that counts as mapped
Alignments ==
    {Alignment("r", r, f[1], f[2]) : r \in RegionLists, f \in BOOLEAN \X BOOLEAN}
        \cup {Alignment("r", <<>>, FALSE, FALSE)}

\* the read groups of an unpaired read or of a read pair
ReadPairs == UNION {[1..k -> Alignments] : k \in 1..2}

\* the read groups of n segments (a first, middles and a last), each aligned
\* as one region of at most MaxSegLen bases
Templates(n) ==
    [1..n ->
        {a \in Alignments : /\ Len(a.region_list) = 1
                            /\ a.region_list[1][2] - a.region_list[1][1] < MaxSegLen}]

\* the SpliceLists the constructor builds from the accepted exon lists
ConstructedLists ==
    {SpliceListInit("v", exons, f[1], f[2], 0) :
        exons \in ExonLists, f \in BOOLEAN \X BOOLEAN}

\* the place of an exon list in the annotation file: its exons read as the
\* digits of a number
RECURSIVE ExonListCode(_)
ExonListCode(s) ==
    IF s = <<>> THEN 0
    ELSE ExonListCode(SubSeq(s, 1, Len(s) - 1)) * (MaxPos + 1) * (MaxPos + 1)
         + s[Len(s)][1] * (MaxPos + 1) + s[Len(s)][2]

RECURSIVE ListOf(_)
ListOf(S) ==
    IF S = {} THEN <<>>
    ELSE LET x == CHOOSE y \in S : \A z \in S : ExonListCode(y) <= ExonListCode(z)
         IN  <<x>> \o ListOf(S \ {x})

\* Annotations.variants for an annotation that lists one transcript for every
\* exon list over the positions, then pre-mRNA spanning them
AllVariants ==
    LET lists == ListOf(ExonLists)
    IN  [i \in 1..Len(lists) |->
            SpliceListInit("NM_" \o ToString(i), lists[i], TRUE, TRUE, 0)]
        \o <<SpliceListInit("pre-mRNA", <<Exon(1, MaxPos)>>, TRUE, TRUE, 0)>>

-----------------------------------------------------------------------------
(* Annotations.get_annotations *)

\* a query that reports every variant
PossibleAnnotationsAll(vs, matches) == [i \in 1..Len(vs) |-> vs[i].identifier]

\* the loop over zip(self.variants, matches)
RECURSIVE PossibleAnnotations(_, _)
PossibleAnnotations(vs, matches) ==
    IF vs = <<>> THEN <<>>
    ELSE (IF Head(matches) THEN <<Head(vs).identifier>> ELSE <<>>)
         \o PossibleAnnotations(Tail(vs), Tail(matches))

-----------------------------------------------------------------------------
(* Specification: a read group becomes a Transcript, which is annotated *)

Init ==
    /\ pc = "group"
    /\ args \in ReadPairs
    /\ variants = AllVariants
    /\ segments = <<>>
    /\ merged = None
    /\ calls = None
    /\ ret = None

\* Transcript(group, skip_tolerance, map_tolerance)
TranscriptNew ==
    /\ pc = "group"
    /\ LET transcript == TranscriptInit(args) IN
       IF transcript.raised # None
       THEN pc' = "skipped" /\ ret' = transcript.raised /\ UNCHANGED segments
       ELSE pc' = "transcript" /\ segments' = transcript.segments /\ UNCHANGED ret
    /\ UNCHANGED <<args, variants, merged, calls>>

\* annotations.get_annotations(transcript, junction_tolerance)
GetAnnotations ==
    /\ pc = "transcript"
    /\ \E junction_tolerance \in 0..MaxTol, base \in 0..(MaxPos - 1) :
       \E joined \in JoinManyResults(segments) :
          LET matches == [i \in 1..Len(variants) |->
                             Contains(variants[i], joined, junction_tolerance, base)]
          IN  /\ merged' = joined
              /\ calls' = [junction_tolerance |-> junction_tolerance, base |-> base,
                           matches |-> matches]
              /\ ret' = PossibleAnnotations(variants, matches)
    /\ pc' = "annotated"
    /\ UNCHANGED <<args, variants, segments>>

Next == TranscriptNew \/ GetAnnotations

Spec == Init /\ [][Next]_vars

\* the same for the templates of MaxSegs segments
InitTemplate ==
    /\ pc = "group"
    /\ args \in Templates(MaxSegs)
    /\ variants = AllVariants
    /\ segments = <<>>
    /\ merged = None
    /\ calls = None
    /\ ret = None

SpecTemplate == InitTemplate /\ [][Next]_vars

-----------------------------------------------------------------------------
(* Specification of the operations on two SpliceLists: a segment of a
   Transcript or the union of its segments, with a segment or with itself;
   or one constructed list with itself *)

InitLists ==
    /\ pc = "lists"
    /\ \/ \E group \in {g \in ReadPairs : TranscriptInit(g).raised = None} :
            LET segs == TranscriptInit(group).segments
            IN  \E sl1 \in Range(segs) \cup JoinManyResults(segs) :
                \E sl2 \in Range(segs) \cup {sl1} : args = [sl1 |-> sl1, sl2 |-> sl2]
       \/ \E s \in ConstructedLists : args = [sl1 |-> s, sl2 |-> s]
    /\ variants = <<>>
    /\ segments = <<>>
    /\ merged = None
    /\ calls = None
    /\ ret = None

\* sl1.contains(sl2, junction_tolerance)
ContainsCall ==
    /\ pc = "lists"
    /\ \E junction_tolerance \in 0..MaxTol, base \in 0..(MaxPos - 1) :
          /\ calls' = [junction_tolerance |-> junction_tolerance, base |-> base]
          /\ ret' = Contains(args.sl1, args.sl2, junction_tolerance, base)
    /\ pc' = "contains"
    /\ UNCHANGED <<args, variants, segments, merged>>

\* SpliceList.join(sl1, sl2)
JoinCall ==
    /\ pc = "lists"
    /\ ret' \in JoinResults(args.sl1, args.sl2)
    /\ pc' = "join"
    /\ UNCHANGED <<args, variants, segments, merged, calls>>

NextLists == ContainsCall \/ JoinCall

SpecLists == InitLists /\ [][NextLists]_vars

-----------------------------------------------------------------------------
(* Specification of the constructor: SpliceList(identifier, exons, ...) for
   any list of exons *)

InitNew ==
    /\ pc = "new"
    /\ \E exons \in SeqsUpTo(ExonSet, MaxExons) \ {<<>>}, f \in BOOLEAN \X BOOLEAN :
          args = [identifier |-> "NM_1", exons |-> exons,
                  set_left_junction |-> f[1], set_right_junction |-> f[2]]
    /\ variants = <<>>
    /\ segments = <<>>
    /\ merged = None
    /\ calls = None
    /\ ret = None

SpliceListNew ==
    /\ pc = "new"
    /\ ret' = SpliceListInit(args.identifier, args.exons, args.set_left_junction,
                             args.set_right_junction, 0)
    /\ pc' = "constructed"
    /\ UNCHANGED <<args, variants, segments, merged, calls>>

NextNew == SpliceListNew

SpecNew == InitNew /\ [][NextNew]_vars

-----------------------------------------------------------------------------
(* _get_read_groups *)

\* A SAM alignment line is given by the fields the grouping reads: QNAME, FLAG
\* and RNEXT; `line` is its place in the file and stands for the other fields.
SamLine(qname, flag, rnext, line) ==
    [qname |-> qname, flag |-> flag, rnext |-> rnext, line |-> line]

\* _get_flags(line) & 0x1 == 0x1
IsGrouped(line) == line.flag % 2 = 1

\* _get_flags(line) & 0x40 == 0x40
IsFirstSegment(line) == (line.flag \div 64) % 2 = 1

\* _get_flags(line) & 0x80 == 0x80
IsLastSegment(line) == (line.flag \div 128) % 2 = 1

\* rnext after a segment: its own QNAME for '=', None for '*', else RNEXT;
\* a name is held in a tuple so that it compares with None
NextName(alignment) ==
    IF alignment.rnext = "=" THEN <<alignment.qname>>
    ELSE IF alignment.rnext = "*" THEN None
    ELSE <<alignment.rnext>>

\* list.pop(i), i counted from 0: the list without that element
Pop(list, i) == SubSeq(list, 1, i) \o SubSeq(list, i + 2, Len(list))

\* the while loop over grouped_middle; gives read_group, grouped_middle, rnext
RECURSIVE MiddleLoop(_, _, _, _)
MiddleLoop(grouped_middle, i, rnext, read_group) ==
    IF ~(i < Len(grouped_middle) /\ rnext # None)
    THEN <<read_group, grouped_middle, rnext>>
    ELSE LET consider == grouped_middle[i + 1] IN
         IF <<consider.qname>> = rnext
         THEN MiddleLoop(Pop(grouped_middle, i), i, NextName(consider),
                         Append(read_group, consider))
         ELSE MiddleLoop(grouped_middle, i + 1, rnext, read_group)

\* a loop that takes the first of grouped_last whatever its name
LastLoopAny(grouped_last, rnext, read_group) ==
    IF grouped_last = <<>> THEN <<read_group, grouped_last>>
    ELSE <<Append(read_group, grouped_last[1]), Pop(grouped_last, 0)>>

\* the for loop over enumerate(grouped_last), which stops at the first segment
\* named rnext; gives read_group, grouped_last
LastLoop(grouped_last, rnext, read_group) ==
    LET found == {i \in 0..(Len(grouped_last) - 1) :
                     <<grouped_last[i + 1].qname>> = rnext}
    IN  IF found = {} THEN <<read_group, grouped_last>>
        ELSE <<Append(read_group, grouped_last[Min(found) + 1]),
               Pop(grouped_last, Min(found))>>

\* the loop over grouped_first; gives read_groups, grouped_orphans,
\* grouped_middle, grouped_last
RECURSIVE FirstLoop(_, _, _, _, _)
FirstLoop(grouped_first, grouped_middle, grouped_last, read_groups, grouped_orphans) ==
    IF grouped_first = <<>>
    THEN <<read_groups, grouped_orphans, grouped_middle, grouped_last>>
    ELSE LET alignment == Head(grouped_first)
             middle == MiddleLoop(grouped_middle, 0, NextName(alignment), <<alignment>>)
             last == LastLoop(grouped_last, middle[3], middle[1])
             read_group == last[1]
         IN  IF Len(read_group) = 1
             THEN FirstLoop(Tail(grouped_first), middle[2], last[2], read_groups,
                            Append(grouped_orphans, read_group[1]))
             ELSE FirstLoop(Tail(grouped_first), middle[2], last[2],
                            Append(read_groups, read_group), grouped_orphans)

\* a list that puts the orphans before the lines without flag 0x1
ReturnedGroupsOrphansFirst(read_groups, alignments_ungrouped, grouped_orphans) ==
    read_groups
    \o [i \in 1..Len(grouped_orphans) |-> <<grouped_orphans[i]>>]
    \o [i \in 1..Len(alignments_ungrouped) |-> <<alignments_ungrouped[i]>>]

\* the list returned: the read groups, then a group for each ungrouped line,
\* then a group for each orphan
ReturnedGroups(read_groups, alignments_ungrouped, grouped_orphans) ==
    read_groups
    \o [i \in 1..Len(alignments_ungrouped) |-> <<alignments_ungrouped[i]>>]
    \o [i \in 1..Len(grouped_orphans) |-> <<grouped_orphans[i]>>]

\* _get_read_groups(alignments)
GetReadGroups(alignments) ==
    LET all == Range(alignments)
        alignments_ungrouped == FilterSeq(alignments, {a \in all : ~IsGrouped(a)})
        alignments_grouped == FilterSeq(alignments, {a \in all : IsGrouped(a)})
        grouped_first == FilterSeq(alignments_grouped, {a \in all : IsFirstSegment(a)})
        grouped_last == FilterSeq(alignments_grouped, {a \in all : IsLastSegment(a)})
        grouped_middle == FilterSeq(alignments_grouped,
                              {a \in all : ~IsFirstSegment(a) /\ ~IsLastSegment(a)})
        out == FirstLoop(grouped_first, grouped_middle, grouped_last, <<>>, <<>>)
        grouped_orphans == out[2] \o out[3] \o out[4]
    IN  ReturnedGroups(out[1], alignments_ungrouped, grouped_orphans)

\* the FLAG values of a line: unpaired, a middle, a first, a last segment, and
\* a segment marked as both first and last
Flags == {0, 1, 65, 129, 193}

QNames == {"a", "b"}

RNexts == {"=", "*", "b"}

\* the files of n alignment lines
SamFiles(n) ==
    {[i \in 1..n |-> SamLine(f[i][1], f[i][2], f[i][3], i)] :
        f \in [1..n -> QNames \X Flags \X RNexts]}

InitGroups ==
    /\ pc = "lines"
    /\ \E n \in 1..MaxLines : args \in SamFiles(n)
    /\ variants = <<>>
    /\ segments = <<>>
    /\ merged = None
    /\ calls = None
    /\ ret = None

ReadGroups ==
    /\ pc = "lines"
    /\ ret' = GetReadGroups(args)
    /\ pc' = "grouped"
    /\ UNCHANGED <<args, variants, segments, merged, calls>>

NextGroups == ReadGroups

SpecGroups == InitGroups /\ [][NextGroups]_vars

-----------------------------------------------------------------------------
(* Properties of contains *)

\* the junctions of v, by their place in v.junctions from 0, that have the
\* type of j and a position within tol of it
Matching(v, j, tol) ==
    {i \in 0..(Len(v.junctions) - 1) :
        /\ v.junctions[i + 1].type = j.type
        /\ Abs(v.junctions[i + 1].position - j.position) <= tol}

\* S holds more than tol consecutive integers
HasRunLongerThan(S, tol) == \E p \in S : \A d \in 0..tol : (p + d) \in S

\* the pairs of junctions of sl that are each other's complement
ComplementPairs(sl) ==
    {p \in Range(sl.junctions) \X Range(sl.junctions) :
        p[1].complement = p[2].id /\ p[2].complement = p[1].id}

\* C1. Self-containment: s.contains(s, tol) returns True for every SpliceList s
\* the program produces (constructed, a wired segment of a Transcript, or
\* joined) and every tol >= 0.
C1_SelfContainment ==
    (pc = "contains" /\ args.sl1 = args.sl2) => ret = TRUE

\* C2. Tolerance monotonicity: if v.contains(o, k) returns True, so does
\* v.contains(o, k + 1); o is the merged SpliceList of a Transcript.
C2_ToleranceMonotonicity ==
    pc = "annotated" =>
        \A i \in 1..Len(variants) :
            calls.matches[i] =>
                Contains(variants[i], merged, calls.junction_tolerance + 1, calls.base)

-----------------------------------------------------------------------------
(* Properties of the read grouping *)

\* how many times the line numbered n stands in a list of lines
RECURSIVE Occurrences(_, _)
Occurrences(lines, n) ==
    IF lines = <<>> THEN 0
    ELSE (IF Head(lines).line = n THEN 1 ELSE 0) + Occurrences(Tail(lines), n)

\* C3. Grouping conservation: the groups _get_read_groups returns hold every
\* input line exactly once, whatever the FLAG and RNEXT values: no line is lost
\* and none stands twice.
C3_GroupingConservation ==
    pc = "grouped" =>
        \A n \in 1..Len(args) : Occurrences(Flatten(ret), n) = 1

-----------------------------------------------------------------------------
(* Properties of the annotation of a Transcript *)

\* C4. Exon-skipping test: if v.contains(t, tol) returns True for the merged
\* SpliceList t of a Transcript, then for every two junctions of t that are each
\* other's complement, junctions of v matching the one and the other stand at
\* places of v.junctions that differ by at most 1.
C4_ExonSkipping ==
    pc = "annotated" =>
        \A i \in 1..Len(variants) :
            calls.matches[i] =>
                \A p \in ComplementPairs(merged) :
                    \E a \in Matching(variants[i], p[1], calls.junction_tolerance),
                       b \in Matching(variants[i], p[2], calls.junction_tolerance) :
                        Abs(a - b) <= 1

\* C5. Region containment with tolerance: v.contains(t, tol) returns False
\* whenever the positions of t outside the regions of v hold a run of more than
\* tol consecutive integers, and the loop over these positions does not return
\* False when every run has at most tol of them.
C5_RegionContainment ==
    pc = "annotated" =>
        \A i \in 1..Len(variants) :
            LET overhang == Positions(merged.regions) \ Positions(variants[i].regions)
                tol == calls.junction_tolerance
            IN  /\ HasRunLongerThan(overhang, tol) => ~calls.matches[i]
                /\ ~HasRunLongerThan(overhang, tol) =>
                       ~OverhangLoop(SetList(overhang, calls.base), 0, -1, tol)

\* C6. Junction matching with tolerance: v.contains(t, tol) returns False
\* whenever some junction of t has no junction of v of its type within tol of
\* its position; a junction of the other type within tol does not count.
C6_JunctionMatching ==
    pc = "annotated" =>
        \A i \in 1..Len(variants) :
            (\E j \in Range(merged.junctions) :
                Matching(variants[i], j, calls.junction_tolerance) = {})
                => ~calls.matches[i]

\* a junction of the transcript has a junction of the other type of the variant
\* within tolerance and none of its own, the regions being contained
C6_Witness ==
    /\ pc = "annotated"
    /\ \E i \in 1..Len(variants) :
          /\ ~calls.matches[i]
          /\ ~HasRunLongerThan(Positions(merged.regions) \ Positions(variants[i].regions),
                               calls.junction_tolerance)
          /\ \E j \in Range(merged.junctions) :
                /\ Matching(variants[i], j, calls.junction_tolerance) = {}
                /\ \E k \in Range(variants[i].junctions) :
                      /\ k.type # j.type
                      /\ Abs(k.position - j.position) <= calls.junction_tolerance

\* how many of the first i variants contain the merged SpliceList
ContainingUpTo(i) == Cardinality({h \in 1..i : calls.matches[h]})

\* C10. Annotation query: get_annotations returns the identifiers of exactly
\* the variants v for which v.contains(join_many of the segments' SpliceLists,
\* tol) is True, in the order of self.variants with pre-mRNA last, one entry
\* for each.
C10_AnnotationQuery ==
    pc = "annotated" =>
        /\ merged \in JoinManyResults(segments)
        /\ \A i \in 1..Len(variants) :
              calls.matches[i] =
                  Contains(variants[i], merged, calls.junction_tolerance, calls.base)
        /\ Len(ret) = ContainingUpTo(Len(variants))
        /\ \A i \in 1..Len(variants) :
              calls.matches[i] => ret[ContainingUpTo(i)] = variants[i].identifier
        /\ \A k \in 1..Len(ret) : ret[k] = "pre-mRNA" => k = Len(ret)

\* a read pair is annotated with several of the variants, pre-mRNA among them,
\* and not with all
C10_Witness ==
    /\ pc = "annotated"
    /\ Len(segments) = 2
    /\ Len(ret) >= 2
    /\ Len(ret) < Len(variants)
    /\ ret[Len(ret)] = "pre-mRNA"

-----------------------------------------------------------------------------
(* Properties of the constructor *)

\* C7. SpliceList structure: from n >= 1 exons that do not overlap, with
\* neither endpoint junction set there are 3n-2 components and n regions and
\* the first and last components are Regions; with both set there are 3n
\* components, from a start junction to an end junction; every boundary between
\* two exons is an end junction immediately followed by a start junction.
C7_Structure ==
    (pc = "constructed" /\ ret.raised = None) =>
        LET n == Len(args.exons)
            c == ret.components
        IN  /\ Len(ret.regions) = n
            /\ (~args.set_left_junction /\ ~args.set_right_junction) =>
                  /\ Len(c) = 3 * n - 2
                  /\ IsRegion(c[1])
                  /\ IsRegion(c[Len(c)])
            /\ (args.set_left_junction /\ args.set_right_junction) =>
                  /\ Len(c) = 3 * n
                  /\ IsJunction(c[1]) /\ c[1].type = TYPE_START
                  /\ IsJunction(c[Len(c)]) /\ c[Len(c)].type = TYPE_END
            /\ \A i \in 1..(Len(c) - 3) :
                  IsRegion(c[i]) =>
                      /\ IsJunction(c[i + 1]) /\ c[i + 1].type = TYPE_END
                      /\ c[i + 1].position = c[i].stop
                      /\ IsJunction(c[i + 2]) /\ c[i + 2].type = TYPE_START
                      /\ IsRegion(c[i + 3])
                      /\ c[i + 2].position = c[i + 3].start

\* MaxExons exons given out of order are constructed with no endpoint junction
C7_Witness ==
    /\ pc = "constructed"
    /\ ret.raised = None
    /\ Len(args.exons) = MaxExons
    /\ args.exons[1][1] > args.exons[2][1]
    /\ ~args.set_left_junction
    /\ ~args.set_right_junction

\* C8. Overlap rejection: the constructor raises OverlappingExonsError, and
\* makes no SpliceList, for every exon list, in any order, with two exons a and
\* b, a before b once sorted by start, such that a.stop >= b.start.
C8_OverlapRejection ==
    (/\ pc = "constructed"
     /\ \E i, j \in 1..Len(args.exons) :
           /\ i # j
           /\ \/ args.exons[i][1] < args.exons[j][1]
              \/ args.exons[i][1] = args.exons[j][1] /\ i < j
           /\ args.exons[i][2] >= args.exons[j][1])
        => ret = Raise("OverlappingExonsError")

\* two exons given out of order that share one position are rejected
C8_Witness ==
    /\ pc = "constructed"
    /\ ret = Raise("OverlappingExonsError")
    /\ Len(args.exons) = 2
    /\ args.exons[1][1] > args.exons[2][1]
    /\ args.exons[2][2] = args.exons[1][1]

-----------------------------------------------------------------------------
(* Properties of join *)

\* junction j lies inside one of the regions: a start behind the region's
\* first position, or an end before its last
Inside(j, regions) ==
    \E i \in 1..Len(regions) :
        \/ /\ j.type = TYPE_START
           /\ regions[i].start < j.position /\ j.position <= regions[i].stop
        \/ /\ j.type = TYPE_END
           /\ regions[i].start <= j.position /\ j.position < regions[i].stop

\* C9. Union idempotence: join(s, s) of a SpliceList s with a region has the
\* identifier of s, covers exactly the positions s covers, and has as junctions
\* those of s that do not lie inside a merged region, each once.
C9_UnionIdempotence ==
    (pc = "join" /\ args.sl1 = args.sl2) =>
        /\ ret.raised = None
        /\ ret.identifier = args.sl1.identifier
        /\ Positions(ret.regions) = Positions(args.sl1.regions)
        /\ \A i \in 1..(Len(ret.regions) - 1) :
              ret.regions[i].stop + 1 < ret.regions[i + 1].start
        /\ Range(ret.junctions) =
              {j \in Range(args.sl1.junctions) : ~Inside(j, ret.regions)}
        /\ Cardinality(Range(ret.junctions)) = Len(ret.junctions)

\* a SpliceList with two adjacent exons is joined with itself, which merges the
\* exons and drops the junctions between them
C9_Witness ==
    /\ pc = "join"
    /\ args.sl1 = args.sl2
    /\ Len(ret.regions) < Len(args.sl1.regions)
    /\ Len(ret.junctions) < Len(args.sl1.junctions)
    /\ ret.junctions # <<>>

\* C16. Union region merging: the regions of join(a, b) cover exactly the
\* positions of the regions of a and of b, ascending, two consecutive regions
\* being separated by at least one position that is not covered.
C16_UnionRegions ==
    pc = "join" =>
        /\ ret.raised = None
        /\ Positions(ret.regions)
              = Positions(args.sl1.regions) \cup Positions(args.sl2.regions)
        /\ \A i \in 1..Len(ret.regions) : ret.regions[i].start <= ret.regions[i].stop
        /\ \A i \in 1..(Len(ret.regions) - 1) :
              ret.regions[i].stop + 1 < ret.regions[i + 1].start
        /\ \A i \in 1..Len(ret.components) :
              IsRegion(ret.components[i]) <=> ret.components[i] \in Range(ret.regions)

\* two different lists whose regions overlap or touch are joined into a list
\* that still has two regions
C16_Witness ==
    /\ pc = "join"
    /\ args.sl1 # args.sl2
    /\ Len(ret.regions) = 2
    /\ Len(ret.regions) < Len(args.sl1.regions) + Len(args.sl2.regions)

\* the positions the regions of a and of b cover
Covered(a, b) == Positions(a.regions) \cup Positions(b.regions)

\* C17. Union junction dropping: the junctions of join(a, b) are exactly those
\* of a and of b whose adjacent position is not covered (p-1 for a start at p,
\* p+1 for an end at p), ordered by position, each with its type, its
\* has_complement flag and its complement.
C17_UnionJunctions ==
    pc = "join" =>
        /\ Range(ret.junctions) =
              {j \in Range(args.sl1.junctions) \cup Range(args.sl2.junctions) :
                  \/ j.type = TYPE_START
                     /\ (j.position - 1) \notin Covered(args.sl1, args.sl2)
                  \/ j.type = TYPE_END
                     /\ (j.position + 1) \notin Covered(args.sl1, args.sl2)}
        /\ Cardinality(Range(ret.junctions)) = Len(ret.junctions)
        /\ \A i \in 1..(Len(ret.junctions) - 1) :
              ret.junctions[i].position <= ret.junctions[i + 1].position

\* two different lists are joined; a junction is dropped and a junction with
\* a complement and one at another position are kept
C17_Witness ==
    /\ pc = "join"
    /\ args.sl1 # args.sl2
    /\ Len(ret.junctions)
          < Cardinality(Range(args.sl1.junctions) \cup Range(args.sl2.junctions))
    /\ \E j, k \in Range(ret.junctions) :
          j.complement # None /\ j.position < k.position

-----------------------------------------------------------------------------
(* Specification of the joins of three SpliceLists: the segments of a
   Transcript of three segments, whose QNAMEs may differ *)

\* the template with the QNAMEs replaced by names
Renamed(template, names) ==
    [k \in 1..Len(template) |-> [template[k] EXCEPT !.qname = names[k]]]

InitThree ==
    /\ pc = "three"
    /\ \E template \in Templates(3), names \in [1..3 -> QNames] :
          args = TranscriptInit(Renamed(template, names)).segments
    /\ variants = <<>>
    /\ segments = <<>>
    /\ merged = None
    /\ calls = None
    /\ ret = None

\* join(join(a, b), c), join(a, join(b, c)) and join_many(a, b, c)
JoinThree ==
    /\ pc = "three"
    /\ \E ab \in JoinResults(args[1], args[2]), bc \in JoinResults(args[2], args[3]) :
       \E left \in JoinResults(ab, args[3]), right \in JoinResults(args[1], bc) :
       \E many \in JoinManyResults(args) :
          ret' = [left |-> left, right |-> right, many |-> many]
    /\ pc' = "joined"
    /\ UNCHANGED <<args, variants, segments, merged, calls>>

NextThree == JoinThree

SpecThree == InitThree /\ [][NextThree]_vars

\* two SpliceLists with the same identifier, regions and set of junctions
SameList(x, y) ==
    /\ x.identifier = y.identifier
    /\ x.regions = y.regions
    /\ Range(x.junctions) = Range(y.junctions)

\* C18. Union associativity: join(join(a, b), c) and join(a, join(b, c)) have
\* the same identifier, the same regions and the same junction set, and
\* join_many(a, b, c) is the left fold join(join(a, b), c).
C18_UnionAssociativity ==
    pc = "joined" =>
        /\ SameList(ret.left, ret.right)
        /\ SameList(ret.many, ret.left)

\* C18 as amended: the two nestings have the same regions and the same junction
\* set, and join_many is the left fold; the identifiers are the same when the
\* three identifiers are equal (the identifier itself) and when the second
\* differs from the first and from the third (the three joined by commas).
C18_UnionAssociativityAmended ==
    pc = "joined" =>
        LET a == args[1].identifier
            b == args[2].identifier
            c == args[3].identifier
        IN  /\ ret.left.regions = ret.right.regions
            /\ Range(ret.left.junctions) = Range(ret.right.junctions)
            /\ SameList(ret.many, ret.left)
            /\ (a = b /\ b = c) =>
                  ret.left.identifier = a /\ ret.right.identifier = a
            /\ (a # b /\ b # c) =>
                  /\ ret.left.identifier = a \o "," \o b \o "," \o c
                  /\ ret.right.identifier = a \o "," \o b \o "," \o c

\* three segments of one name are joined, some junction being dropped and
\* some kept
C18_Witness ==
    /\ pc = "joined"
    /\ args[1].identifier = args[2].identifier
    /\ args[2].identifier = args[3].identifier
    /\ ret.left.junctions # <<>>
    /\ Len(ret.left.junctions)
          < Len(args[1].junctions) + Len(args[2].junctions) + Len(args[3].junctions)

-----------------------------------------------------------------------------
(* Properties of the order of the read groups *)

\* the class of a returned group: 1 a group of several lines, 2 the singleton
\* of a line without flag 0x1, 3 the singleton of an orphan
GroupClass(group) ==
    IF Len(group) > 1 THEN 1 ELSE IF ~IsGrouped(group[1]) THEN 2 ELSE 3

\* C13. Emission order of groups: _get_read_groups returns the groups of
\* several lines first, then one singleton for each line without flag 0x1, then
\* the singletons of the orphans; within each of the three classes the groups
\* stand in the order of their lines in the input.
C13_EmissionOrder ==
    pc = "grouped" =>
        /\ \A n \in 1..Len(args) :
              ~IsGrouped(args[n]) =>
                  Cardinality({k \in 1..Len(ret) : ret[k] = <<args[n]>>}) = 1
        /\ \A k \in 1..(Len(ret) - 1) :
              /\ GroupClass(ret[k]) <= GroupClass(ret[k + 1])
              /\ GroupClass(ret[k]) = GroupClass(ret[k + 1])
                    => ret[k][1].line <= ret[k + 1][1].line

\* the singletons ret[from + 1 .. to] hold lines of `lines`, in input order
OrderedSingletons(from, to, lines) ==
    /\ \A k \in (from + 1)..to : Len(ret[k]) = 1 /\ ret[k][1] \in lines
    /\ \A k \in (from + 1)..(to - 1) : ret[k][1].line < ret[k + 1][1].line

\* C13 as amended: the groups of several lines come first, in the input order
\* of their first segments; then one singleton for each line without flag
\* 0x1, in input order; then the orphans: the first segments, then the middle
\* segments, then the last segments, each of the three in input order.
C13_EmissionOrderAmended ==
    pc = "grouped" =>
        \E p, u, f, m \in 0..Len(ret) :
            /\ p <= u /\ u <= f /\ f <= m
            /\ \A k \in 1..p : Len(ret[k]) > 1
            /\ \A k \in 1..(p - 1) : ret[k][1].line < ret[k + 1][1].line
            /\ OrderedSingletons(p, u, {a \in Range(args) : ~IsGrouped(a)})
            /\ u - p = Cardinality({a \in Range(args) : ~IsGrouped(a)})
            /\ OrderedSingletons(u, f,
                  {a \in Range(args) : IsGrouped(a) /\ IsFirstSegment(a)})
            /\ OrderedSingletons(f, m,
                  {a \in Range(args) : /\ IsGrouped(a)
                                       /\ ~IsFirstSegment(a) /\ ~IsLastSegment(a)})
            /\ OrderedSingletons(m, Len(ret),
                  {a \in Range(args) : IsGrouped(a) /\ IsLastSegment(a)})

\* a group of two lines is returned before the singleton of an orphan that
\* stands first in the input
C13_Witness ==
    /\ pc = "grouped"
    /\ Len(ret) = 2
    /\ GroupClass(ret[1]) = 1
    /\ ret[1][1].line # ret[1][2].line
    /\ GroupClass(ret[2]) = 3
    /\ ret[2][1].line = 1
    /\ ret[2][1] \notin Range(ret[1])

\* line y continues the chain after line x: its QNAME is what RNEXT of x names
Chained(x, y) ==
    \/ x.rnext = "=" /\ y.qname = x.qname
    \/ x.rnext \notin {"=", "*"} /\ y.qname = x.rnext

\* C14. Order within a read group: in every group _get_read_groups returns
\* the lines stand in the same relative order as in the input.
C14_OrderWithinGroup ==
    pc = "grouped" =>
        \A k \in 1..Len(ret) :
            \A i, j \in 1..Len(ret[k]) : i < j => ret[k][i].line <= ret[k][j].line

\* C14 as amended: every group of several lines is a chain: the first segment
\* that opened it, then the middle segments the RNEXT chain attached, these in
\* their input order, then at most one last segment, each line being named by
\* the RNEXT of the line before it.
C14_ChainOrder ==
    pc = "grouped" =>
        \A k \in 1..Len(ret) :
            LET group == ret[k] IN
            Len(group) > 1 =>
                /\ IsGrouped(group[1]) /\ IsFirstSegment(group[1])
                /\ \A i \in 2..Len(group) :
                      /\ IsGrouped(group[i])
                      /\ Chained(group[i - 1], group[i])
                      /\ ~IsFirstSegment(group[i]) \/ IsLastSegment(group[i])
                      /\ IsLastSegment(group[i]) => i = Len(group)
                /\ \A i, j \in 2..Len(group) :
                      (i < j /\ ~IsLastSegment(group[j]))
                          => group[i].line < group[j].line

\* a group of a first, a middle and a last segment is returned, the last
\* segment standing before the first in the input
C14_Witness ==
    /\ pc = "grouped"
    /\ \E k \in 1..Len(ret) :
          /\ Len(ret[k]) = 3
          /\ ret[k][3].line < ret[k][1].line
          /\ ~IsFirstSegment(ret[k][2]) /\ ~IsLastSegment(ret[k][2])
          /\ ~IsFirstSegment(ret[k][3])

-----------------------------------------------------------------------------
(* Segment._expand_cigar and Segment._get_region_list *)

\* A CIGAR string is held as the list of its items <<count, operation>>; the
\* string `*` of an unmapped line is CigarStar.
CigarStar == <<<<0, "*">>>>

CIGAR_MAPPING == {"M", "D", "N", "=", "X"}

CIGAR_MAPS_BOTH == {"M", "=", "X"}

\* the loop over the characters of the CIGAR: count * operation for each item
RECURSIVE Expanded(_)
Expanded(cigar) ==
    IF cigar = <<>> THEN <<>>
    ELSE [i \in 1..Head(cigar)[1] |-> Head(cigar)[2]] \o Expanded(Tail(cigar))

\* Segment._expand_cigar(cigar)
ExpandCigar(cigar) ==
    IF cigar = CigarStar THEN Raise("NoMappingError")
    ELSE [raised |-> None, expanded |-> Expanded(cigar)]

\* len(re.match(r'\AS+', cigar_v).group()), 0 when there is no match
RECURSIVE LeftSoftClip(_)
LeftSoftClip(cigar_v) ==
    IF cigar_v = <<>> \/ Head(cigar_v) # "S" THEN 0
    ELSE 1 + LeftSoftClip(Tail(cigar_v))

\* len(re.search(r'S+\Z', cigar_v).group()), 0 when there is no match
RECURSIVE RightSoftClip(_)
RightSoftClip(cigar_v) ==
    IF cigar_v = <<>> \/ cigar_v[Len(cigar_v)] # "S" THEN 0
    ELSE 1 + RightSoftClip(SubSeq(cigar_v, 1, Len(cigar_v) - 1))

\* a soft clip of exactly skip_tolerance bases marks the end as well
ShouldSetJunctionInclusive(soft_clip, skip_tolerance) ==
    IF soft_clip = 0 THEN FALSE ELSE soft_clip >= skip_tolerance

\* False if soft_clip == None else len(soft_clip.group()) > skip_tolerance
ShouldSetJunction(soft_clip, skip_tolerance) ==
    IF soft_clip = 0 THEN FALSE ELSE soft_clip > skip_tolerance

\* An element of cigar_buffer: the pair [op, occurences], a Python list
\* (mutable) when the first loop built it and a tuple when the relabelling
\* replaced it.
Pair(op, occurences, mutable) ==
    [op |-> op, occurences |-> occurences, mutable |-> mutable]

\* the loop that re-represents the encoded operations as runs
RECURSIVE RunLoop(_, _)
RunLoop(cigar_v, cigar_buffer) ==
    IF cigar_v = <<>> THEN cigar_buffer
    ELSE LET op == Head(cigar_v)
             n == Len(cigar_buffer)
         IN  IF cigar_buffer = <<>>
             THEN RunLoop(Tail(cigar_v), <<Pair(op, 1, TRUE)>>)
             ELSE IF op = cigar_buffer[n].op
             THEN RunLoop(Tail(cigar_v),
                     [cigar_buffer EXCEPT ![n].occurences = @ + 1])
             ELSE RunLoop(Tail(cigar_v), Append(cigar_buffer, Pair(op, 1, TRUE)))

\* a relabelling that leaves a skip of exactly skip_tolerance operations
RelabelledStrict(pair, skip_tolerance) ==
    IF pair.op = FALSE /\ pair.occurences < skip_tolerance
    THEN Pair(TRUE, pair.occurences, FALSE)
    ELSE pair

\* (True, pair[1]) if pair[0] == False and pair[1] <= skip_tolerance else pair
Relabelled(pair, skip_tolerance) ==
    IF pair.op = FALSE /\ pair.occurences <= skip_tolerance
    THEN Pair(TRUE, pair.occurences, FALSE)
    ELSE pair

\* the loop that merges adjacent runs of the same class; the augmented
\* assignment cigar_buffer2[-1][1] += pair[1] raises TypeError on a tuple
RECURSIVE MergeRuns(_, _)
MergeRuns(cigar_buffer, cigar_buffer2) ==
    IF cigar_buffer = <<>> THEN [raised |-> None, cigar_buffer2 |-> cigar_buffer2]
    ELSE LET pair == Head(cigar_buffer)
             n == Len(cigar_buffer2)
         IN  IF cigar_buffer2 = <<>>
             THEN MergeRuns(Tail(cigar_buffer), <<pair>>)
             ELSE IF pair.op = cigar_buffer2[n].op
             THEN IF cigar_buffer2[n].mutable
                  THEN MergeRuns(Tail(cigar_buffer),
                          [cigar_buffer2 EXCEPT
                              ![n].occurences = @ + pair.occurences])
                  ELSE Raise("TypeError")
             ELSE MergeRuns(Tail(cigar_buffer), Append(cigar_buffer2, pair))

\* the loop that translates the runs into regions, walking from position
RECURSIVE RegionsFrom(_, _)
RegionsFrom(cigar_buffer2, position) ==
    IF cigar_buffer2 = <<>> THEN <<>>
    ELSE LET region == Head(cigar_buffer2) IN
         IF region.op = TRUE
         THEN <<Exon(position, position + region.occurences - 1)>>
              \o RegionsFrom(Tail(cigar_buffer2), position + region.occurences)
         ELSE RegionsFrom(Tail(cigar_buffer2), position + region.occurences)

\* the regions that span at least map_tolerance positions
WithinTolerance(regions, map_tolerance) ==
    FilterSeq(regions,
              {region \in Range(regions) :
                  ~(region[2] - region[1] + 1 < map_tolerance)})

\* Segment._get_region_list for a line with the given POS and CIGAR
GetRegionList(position, cigar, skip_tolerance, map_tolerance) ==
    LET expanded == ExpandCigar(cigar) IN
    IF expanded.raised # None THEN expanded
    ELSE
    LET cigar_v == FilterSeq(expanded.expanded, CIGAR_MAPPING \cup {"S"})
        should_set_left_junction ==
            ShouldSetJunction(LeftSoftClip(cigar_v), skip_tolerance)
        should_set_right_junction ==
            ShouldSetJunction(RightSoftClip(cigar_v), skip_tolerance)
        unclipped == FilterSeq(cigar_v, Range(cigar_v) \ {"S"})
        encoded == [i \in 1..Len(unclipped) |-> unclipped[i] \in CIGAR_MAPS_BOTH]
        cigar_buffer == RunLoop(encoded, <<>>)
        relabelled == [i \in 1..Len(cigar_buffer) |->
                          Relabelled(cigar_buffer[i], skip_tolerance)]
        merged_runs == MergeRuns(relabelled, <<>>)
    IN  IF merged_runs.raised # None THEN merged_runs
        ELSE [raised |-> None,
              region_list |->
                  WithinTolerance(RegionsFrom(merged_runs.cigar_buffer2, position),
                                  map_tolerance),
              set_left_junction |-> should_set_left_junction,
              set_right_junction |-> should_set_right_junction]

-----------------------------------------------------------------------------
(* Segment.__init__ *)

\* A SAM alignment line with the fields the program reads: those of the
\* grouping, POS and CIGAR.
SamAlignment(qname, flag, rnext, line, pos, cigar) ==
    [qname |-> qname, flag |-> flag, rnext |-> rnext, line |-> line,
     pos |-> pos, cigar |-> cigar]

\* Segment(sam, skip_tolerance, map_tolerance); the Segment owns the Junction
\* objects <<k, 1>>, <<k, 2>>, ...
SegmentInit(sam, skip_tolerance, map_tolerance, k) ==
    LET got == GetRegionList(sam.pos, sam.cigar, skip_tolerance, map_tolerance)
    IN  IF got.raised # None THEN got
        ELSE IF got.region_list = <<>> THEN Raise("NoMappingError")
        ELSE [raised |-> None, sam |-> sam,
              splice_list |->
                  SpliceListInit(sam.qname, got.region_list,
                                 got.set_left_junction, got.set_right_junction, k)]

-----------------------------------------------------------------------------
(* Specification of the Segment of one alignment line *)

MaxRuns == 3

MaxRunLen == 2

\* the operations of the input CIGARs: a match, the two skips, an insertion
\* and a soft clip
CigarOps == {"M", "D", "N", "I", "S"}

\* `*` and the CIGAR strings of 1..n items
Cigars(n) ==
    {CigarStar} \cup UNION {[1..k -> (1..MaxRunLen) \X CigarOps] : k \in 1..n}

InitCigar ==
    /\ pc = "sam"
    /\ \E pos \in {1, MaxPos}, cigar \in Cigars(MaxRuns),
          skip_tolerance \in 0..MaxTol, map_tolerance \in {0, 1, MaxTol} :
          args = [sam |-> SamAlignment("r", 0, "*", 1, pos, cigar),
                  skip_tolerance |-> skip_tolerance,
                  map_tolerance |-> map_tolerance]
    /\ variants = <<>>
    /\ segments = <<>>
    /\ merged = None
    /\ calls = None
    /\ ret = None

\* Segment._get_region_list(sam, skip_tolerance, map_tolerance)
GetRegionListCall ==
    /\ pc = "sam"
    /\ ret' = GetRegionList(args.sam.pos, args.sam.cigar,
                            args.skip_tolerance, args.map_tolerance)
    /\ pc' = "regions"
    /\ UNCHANGED <<args, variants, segments, merged, calls>>

\* Segment(sam, skip_tolerance, map_tolerance)
SegmentNew ==
    /\ pc = "sam"
    /\ ret' = SegmentInit(args.sam, args.skip_tolerance, args.map_tolerance, 1)
    /\ pc' = "segment"
    /\ UNCHANGED <<args, variants, segments, merged, calls>>

NextCigar == GetRegionListCall \/ SegmentNew

SpecCigar == InitCigar /\ [][NextCigar]_vars

-----------------------------------------------------------------------------
(* Regions of a Segment *)

\* the operations of a CIGAR that consume the reference, one per position
ReferenceOps(cigar) == FilterSeq(Expanded(cigar), CIGAR_MAPPING)

\* the length of the maximal run of D/N operations around the i-th operation
SkipRun(ops, i) ==
    Cardinality({j \in 1..Len(ops) :
        \A k \in (IF j < i THEN j ELSE i)..(IF j < i THEN i ELSE j) :
            ops[k] \notin CIGAR_MAPS_BOTH})

\* the i-th operation counts as match: it is one, or it lies in a run of D/N
\* of at most skip_tolerance operations
CountsAsMatch(ops, i, skip_tolerance) ==
    ops[i] \in CIGAR_MAPS_BOTH \/ SkipRun(ops, i) <= skip_tolerance

\* the maximal stretches of operations counting as match, as regions walked
\* from position, those shorter than map_tolerance left out
ExpectedRegions(position, cigar, skip_tolerance, map_tolerance) ==
    LET ops == ReferenceOps(cigar)
        counts == {i \in 1..Len(ops) : CountsAsMatch(ops, i, skip_tolerance)}
        starts == {i \in counts : i - 1 \notin counts}
        StopOf(i) == CHOOSE j \in counts :
                        /\ j >= i
                        /\ j + 1 \notin counts
                        /\ \A k \in i..j : k \in counts
        ordered == SortedList({i \in starts : StopOf(i) - i + 1 >= map_tolerance})
    IN  [n \in 1..Len(ordered) |->
            Exon(position + ordered[n] - 1, position + StopOf(ordered[n]) - 1)]

\* C19 (skip absorption): for every CIGAR other than `*`, _get_region_list
\* returns the regions obtained by counting every maximal run of D/N of at
\* most skip_tolerance operations as match, wherever the run lies, merging it
\* with the neighbouring matches and walking the merged runs from POS; a
\* longer run of D/N separates two regions.
C19_SkipAbsorption ==
    (pc = "regions" /\ args.sam.cigar # CigarStar)
        => /\ ret.raised = None
           /\ ret.region_list =
                 ExpectedRegions(args.sam.pos, args.sam.cigar,
                                 args.skip_tolerance, args.map_tolerance)

\* the operations of a CIGAR that are not removed before the soft clips are
\* looked for
KeptOps(cigar) == FilterSeq(Expanded(cigar), {"M", "D", "N", "=", "X", "S"})

\* the operations begin with a run of S longer than skip_tolerance
BeginsClipped(ops, skip_tolerance) ==
    /\ Len(ops) > skip_tolerance
    /\ \A i \in 1..(skip_tolerance + 1) : ops[i] = "S"

\* the operations end with a run of S longer than skip_tolerance
EndsClipped(ops, skip_tolerance) ==
    /\ Len(ops) > skip_tolerance
    /\ \A i \in (Len(ops) - skip_tolerance)..Len(ops) : ops[i] = "S"

\* C20 (soft-clip edge detection): the left endpoint flag is set iff the
\* CIGAR without the operations outside {M,D,N,=,X,S} begins with a run of S
\* strictly longer than skip_tolerance, the right one iff it ends with such a
\* run; the SpliceList of a Segment begins with a Start junction with
\* has_complement set when the left flag is set and with a Region otherwise,
\* and ends with an End junction with has_complement set or with a Region.
C20_SoftClipEdges ==
    /\ (pc = "regions" /\ ret.raised = None)
          => /\ ret.set_left_junction
                   <=> BeginsClipped(KeptOps(args.sam.cigar), args.skip_tolerance)
             /\ ret.set_right_junction
                   <=> EndsClipped(KeptOps(args.sam.cigar), args.skip_tolerance)
    /\ (pc = "segment" /\ ret.raised = None)
          => LET c == ret.splice_list.components
                 first == c[1]
                 last == c[Len(c)]
             IN  /\ IF BeginsClipped(KeptOps(args.sam.cigar), args.skip_tolerance)
                    THEN /\ IsJunction(first)
                         /\ first.type = TYPE_START
                         /\ first.has_complement
                    ELSE IsRegion(first)
                 /\ IF EndsClipped(KeptOps(args.sam.cigar), args.skip_tolerance)
                    THEN /\ IsJunction(last)
                         /\ last.type = TYPE_END
                         /\ last.has_complement
                    ELSE IsRegion(last)

\* a Segment whose CIGAR has a soft clip longer than skip_tolerance on the
\* left and one of exactly skip_tolerance on the right
C20_Witness ==
    /\ pc = "segment"
    /\ ret.raised = None
    /\ args.skip_tolerance = 1
    /\ args.sam.cigar = <<<<2, "S">>, <<2, "M">>, <<1, "S">>>>
    /\ IsJunction(ret.splice_list.components[1])
    /\ ret.splice_list.components[1].has_complement
    /\ IsRegion(ret.splice_list.components[Len(ret.splice_list.components)])

-----------------------------------------------------------------------------
(* Annotations.__init__ *)

Max(S) == CHOOSE x \in S : \A y \in S : x >= y

\* A row of the GTF file with the fields the constructor reads: the feature,
\* the start, the stop and the transcript_id attribute.
GtfRow(feature, start, stop, transcript_id) ==
    [feature |-> feature, start |-> start, stop |-> stop,
     transcript_id |-> transcript_id]

\* lines2: the triples (start, stop, transcript_id) of the exon rows
Lines2(lines) ==
    LET exon_lines == FilterSeq(lines, {l \in Range(lines) : l.feature = "exon"})
    IN  [i \in 1..Len(exon_lines) |->
            <<exon_lines[i].start, exon_lines[i].stop, exon_lines[i].transcript_id>>]

\* the exons handed to SpliceList: every pair sorted and the pairs sorted by
\* start when the first pair of the group has its start after its stop
ReversedExons(exons) ==
    LET should_reverse == exons[1][1] > exons[1][2]
    IN  IF should_reverse
        THEN SortedExons([i \in 1..Len(exons) |->
                             Exon(Min({exons[i][1], exons[i][2]}),
                                  Max({exons[i][1], exons[i][2]}))])
        ELSE exons

\* The closing of a splice variant: its SpliceList is appended and the
\* precursor's ends are updated from the first and the last exon of the list.
\* precursor_start and precursor_end are None or the value in a tuple.
CloseVariant(state) ==
    LET exons == ReversedExons(state.exons)
        variant == SpliceListInit(state.current_variant, exons, TRUE, TRUE, 0)
    IN  IF variant.raised # None THEN variant
        ELSE [state EXCEPT
                 !.exons = exons,
                 !.variants = Append(@, variant),
                 !.precursor_start =
                     IF @ = None THEN <<exons[1][1]>>
                     ELSE <<Min({@[1], exons[1][1]})>>,
                 !.precursor_end =
                     IF @ = None THEN <<exons[Len(exons)][2]>>
                     ELSE <<Max({@[1], exons[Len(exons)][2]})>>]

\* the loop over lines2 with its else clause
RECURSIVE VariantLoop(_, _)
VariantLoop(lines2, state) ==
    IF lines2 = <<>>
    THEN LET closed == CloseVariant(state) IN
         IF closed.raised # None THEN closed
         ELSE [raised |-> None,
               variants |->
                   Append(closed.variants,
                          SpliceListInit("pre-mRNA",
                                         <<Exon(closed.precursor_start[1],
                                                closed.precursor_end[1])>>,
                                         TRUE, TRUE, 0))]
    ELSE LET triple == Head(lines2) IN
         IF triple[3] = state.current_variant
         THEN VariantLoop(Tail(lines2),
                 [state EXCEPT !.exons = Append(@, Exon(triple[1], triple[2]))])
         ELSE LET closed == CloseVariant(state) IN
              IF closed.raised # None THEN closed
              ELSE VariantLoop(Tail(lines2),
                      [closed EXCEPT !.exons = <<Exon(triple[1], triple[2])>>,
                                     !.current_variant = triple[3]])

\* Annotations(gtf_file) for the rows of the file
AnnotationsInit(lines) ==
    LET lines2 == Lines2(lines) IN
    IF lines2 = <<>> THEN Raise("IndexError")
    ELSE VariantLoop(lines2,
            [raised |-> None, precursor_start |-> None, precursor_end |-> None,
             variants |-> <<>>, exons |-> <<>>, current_variant |-> lines2[1][3]])

-----------------------------------------------------------------------------
(* Specification of the constructor of Annotations *)

MaxRows == 3

TranscriptIds == {"t1", "t2"}

\* the rows of a GTF file: the exons of two transcripts and a row of another
\* feature
GtfRows ==
    {GtfRow("exon", e[1], e[2], t) : e \in Pos \X Pos, t \in TranscriptIds}
        \cup {GtfRow("gene", 1, MaxPos, "t1")}

InitAnnotations ==
    /\ pc = "gtf"
    /\ \E n \in 1..MaxRows : args \in [1..n -> GtfRows]
    /\ variants = <<>>
    /\ segments = <<>>
    /\ merged = None
    /\ calls = None
    /\ ret = None

\* Annotations(gtf_file)
AnnotationsNew ==
    /\ pc = "gtf"
    /\ LET annotations == AnnotationsInit(args) IN
       /\ ret' = annotations.raised
       /\ variants' = IF annotations.raised # None THEN variants
                      ELSE annotations.variants
    /\ pc' = "annotations"
    /\ UNCHANGED <<args, segments, merged, calls>>

NextAnnotations == AnnotationsNew

SpecAnnotations == InitAnnotations /\ [][NextAnnotations]_vars

\* the exon rows of the file
ExonRows == {l \in Range(args) : l.feature = "exon"}

\* C11 (pre-mRNA extent): for every GTF input with at least one exon row,
\* whatever the order of the exon rows within each transcript, the last
\* variant of Annotations is pre-mRNA with exactly one region, from the
\* minimum start to the maximum stop over all exon rows, with a Start
\* junction and an End junction at those two positions.
C11_PreMRNAExtent ==
    (/\ pc = "annotations"
     /\ ret = None
     /\ \A l \in ExonRows : l.start <= l.stop)
        => LET last == variants[Len(variants)]
               lo == Min({l.start : l \in ExonRows})
               hi == Max({l.stop : l \in ExonRows})
           IN  /\ last.identifier = "pre-mRNA"
               /\ last.regions = <<Region(lo, hi)>>
               /\ Len(last.junctions) = 2
               /\ last.junctions[1].position = lo
               /\ last.junctions[1].type = TYPE_START
               /\ last.junctions[2].position = hi
               /\ last.junctions[2].type = TYPE_END

-----------------------------------------------------------------------------
(* get_transcripts, Transcript.annotate and the loop of main *)

\* the text of a CIGAR string
RECURSIVE CigarText(_)
CigarText(cigar) ==
    IF cigar = CigarStar THEN "*"
    ELSE IF cigar = <<>> THEN ""
    ELSE ToString(Head(cigar)[1]) \o Head(cigar)[2] \o CigarText(Tail(cigar))

\* the stripped text of an alignment line, the fields '\t'.split reads back:
\* QNAME, FLAG, RNAME, POS, MAPQ, CIGAR, RNEXT, PNEXT, TLEN, SEQ, QUAL
SamText(sam) ==
    sam.qname \o "\t" \o ToString(sam.flag) \o "\tchr\t" \o ToString(sam.pos)
        \o "\t0\t" \o CigarText(sam.cigar) \o "\t" \o sam.rnext \o "\t0\t0\t*\t*"

\* what Segment.__init__ takes from a line; a line without mapping has no
\* region
AlignmentOf(sam, skip_tolerance, map_tolerance) ==
    LET got == GetRegionList(sam.pos, sam.cigar, skip_tolerance, map_tolerance)
    IN  IF got.raised # None THEN Alignment(sam.qname, <<>>, FALSE, FALSE)
        ELSE Alignment(sam.qname, got.region_list,
                       got.set_left_junction, got.set_right_junction)

\* Transcript(sam_alignments, skip_tolerance, map_tolerance) for alignment
\* lines: a Segment holds the text of its line and its SpliceList; an
\* exception other than NoMappingError leaves the constructor
TranscriptOf(sam_alignments, skip_tolerance, map_tolerance) ==
    LET Got(a) == GetRegionList(a.pos, a.cigar, skip_tolerance, map_tolerance)
        Of(a) == AlignmentOf(a, skip_tolerance, map_tolerance)
        transcript ==
            TranscriptInit([i \in 1..Len(sam_alignments) |-> Of(sam_alignments[i])])
        mapping == FilterSeq(sam_alignments,
                             {a \in Range(sam_alignments) : ~NoMapping(Of(a))})
    IN  IF \E a \in Range(sam_alignments) : Got(a).raised = <<"TypeError">>
        THEN Raise("TypeError")
        ELSE IF transcript.raised # None THEN transcript
        ELSE [raised |-> None,
              segments |->
                  [k \in 1..Len(mapping) |->
                      [sam |-> SamText(mapping[k]),
                       splice_list |-> transcript.segments[k]]]]

\* get_transcripts(alignments, skip_tolerance, map_tolerance)
GetTranscripts(alignments, skip_tolerance, map_tolerance) ==
    LET transcript_groups == GetReadGroups(alignments)
        built == [k \in 1..Len(transcript_groups) |->
                     TranscriptOf(transcript_groups[k], skip_tolerance, map_tolerance)]
    IN  IF \E k \in 1..Len(built) : built[k].raised = <<"TypeError">>
        THEN Raise("TypeError")
        ELSE [raised |-> None,
              transcripts |->
                  FilterSeq(built, {t \in Range(built) : t.raised = None})]

\* sep.join(strings)
RECURSIVE StrJoin(_, _)
StrJoin(sep, strings) ==
    IF strings = <<>> THEN ""
    ELSE IF Len(strings) = 1 THEN strings[1]
    ELSE strings[1] \o sep \o StrJoin(sep, Tail(strings))

\* a tag that names the first identifier only
TRTagFirst(represents) ==
    "TR:Z:" \o (IF represents = <<>> THEN "*" ELSE represents[1])

\* 'TR:Z:{}'.format('*' if represents == [] else ','.join(represents))
TRTag(represents) ==
    "TR:Z:" \o (IF represents = <<>> THEN "*" ELSE StrJoin(",", represents))

\* segment.apply_annotation(represents)
ApplyAnnotation(segment, represents) ==
    [segment EXCEPT !.sam = StrJoin("\t", <<@, TRTag(represents)>>)]

\* str(transcript)
TranscriptStr(transcript) ==
    StrJoin("\n", [k \in 1..Len(transcript.segments) |-> transcript.segments[k].sam])

-----------------------------------------------------------------------------
(* Specification of a run: the alignment lines become Transcripts, which are
   annotated and printed one after the other *)

MaxReads == 2

\* POS and CIGAR of the lines: at position 1 an unmapped line, matches, a
\* deletion before a match and a soft clip before a match; a match past the
\* last annotated position
RunReads ==
    {<<1, cigar>> : cigar \in {CigarStar, <<<<1, "M">>>>, <<<<2, "M">>>>,
                               <<<<1, "D">>, <<1, "M">>>>,
                               <<<<1, "S">>, <<1, "M">>>>}}
        \cup {<<MaxPos + 1, <<<<1, "M">>>>>>}

\* QNAME, FLAG and RNEXT of the lines: the two lines of a pair, and an
\* unpaired read
RunFlags == {<<"a", 65, "=">>, <<"a", 129, "=">>, <<"b", 0, "*">>}

\* the files of n alignment lines
RunFiles(n) ==
    {[i \in 1..n |->
         SamAlignment(f[i][1][1], f[i][1][2], f[i][1][3], i, f[i][2][1], f[i][2][2])] :
        f \in [1..n -> RunFlags \X RunReads]}

\* the annotation of a run: a transcript of two exons, one of a single exon,
\* and pre-mRNA
RunAnnotations ==
    AnnotationsInit(<<GtfRow("exon", 1, 1, "NM_1"),
                      GtfRow("exon", MaxPos, MaxPos, "NM_1"),
                      GtfRow("exon", 1, MaxPos - 1, "NM_2")>>).variants

InitRun ==
    /\ pc = "file"
    /\ \E n \in 1..MaxReads :
       \E alignments \in RunFiles(n), skip_tolerance \in {0, MaxTol},
          map_tolerance \in {1, MaxTol} :
          args = [alignments |-> alignments, skip_tolerance |-> skip_tolerance,
                  map_tolerance |-> map_tolerance]
    /\ variants = RunAnnotations
    /\ segments = <<>>
    /\ merged = None
    /\ calls = None
    /\ ret = None

\* transcripts = get_transcripts(alignments, skip_tolerance, map_tolerance)
GetTranscriptsCall ==
    /\ pc = "file"
    /\ ret' = GetTranscripts(args.alignments, args.skip_tolerance, args.map_tolerance)
    /\ pc' = IF ret'.raised # None THEN "crashed" ELSE "transcripts"
    /\ calls' = [annotated |-> 0, represents |-> <<>>, printed |-> <<>>]
    /\ UNCHANGED <<args, variants, segments, merged>>

\* transcript.annotate(annotations, junction_tolerance); print(transcript)
\* for the next transcript of the list
Annotate ==
    /\ pc = "transcripts"
    /\ calls.annotated < Len(ret.transcripts)
    /\ LET i == calls.annotated + 1
           transcript == ret.transcripts[i]
           splice_lists == [k \in 1..Len(transcript.segments) |->
                               transcript.segments[k].splice_list]
       IN  \E junction_tolerance \in 0..MaxTol, base \in 0..(MaxPos - 1) :
           \E joined \in JoinManyResults(splice_lists) :
              LET matches == [v \in 1..Len(variants) |->
                                 Contains(variants[v], joined, junction_tolerance, base)]
                  represents == PossibleAnnotations(variants, matches)
                  annotated ==
                      [transcript EXCEPT !.segments =
                          [k \in 1..Len(@) |-> ApplyAnnotation(@[k], represents)]]
              IN  /\ merged' = joined
                  /\ ret' = [ret EXCEPT !.transcripts[i] = annotated]
                  /\ calls' = [annotated |-> i,
                               represents |-> Append(calls.represents, represents),
                               printed |-> Append(calls.printed,
                                                  TranscriptStr(annotated))]
    /\ UNCHANGED <<pc, args, variants, segments>>

NextRun == GetTranscriptsCall \/ Annotate

SpecRun == InitRun /\ [][NextRun]_vars

-----------------------------------------------------------------------------
(* Lines of a run *)

\* the line does not map: its CIGAR is `*`, or every one of its regions is
\* shorter than map_tolerance
NonMapping(sam) ==
    \/ sam.cigar = CigarStar
    \/ ExpectedRegions(sam.pos, sam.cigar,
                       args.skip_tolerance, args.map_tolerance) = <<>>

\* the texts of the mapping lines of each read group, in the order of the
\* group, the groups without a mapping line left out
KeptLines ==
    LET groups == GetReadGroups(args.alignments)
        kept == [g \in 1..Len(groups) |->
                    LET mapping == FilterSeq(groups[g],
                                      {a \in Range(groups[g]) : ~NonMapping(a)})
                    IN  [k \in 1..Len(mapping) |-> SamText(mapping[k])]]
    IN  FilterSeq(kept, Range(kept) \ {<<>>})

\* C12 (dropping of non-mapping reads): within a read group every line whose
\* CIGAR is `*` or whose regions are all shorter than map_tolerance is left
\* out of the Transcript and the other lines are kept in their order; a
\* group of such lines only is skipped by get_transcripts and the remaining
\* groups are still processed, so that the Transcripts hold exactly the
\* mapping lines of the groups.
C12_NonMappingDropped ==
    pc \in {"transcripts", "crashed"}
        => /\ ret.raised = None
           /\ Len(ret.transcripts) = Len(KeptLines)
           /\ \A i \in 1..Len(ret.transcripts) :
                 LET lines == ret.transcripts[i].segments IN
                 /\ Len(lines) = Len(KeptLines[i])
                 /\ i > calls.annotated
                       => \A k \in 1..Len(lines) : lines[k].sam = KeptLines[i][k]

\* the strings of a non-empty list, one after the other with sep in between
RECURSIVE SeparatedBy(_, _)
SeparatedBy(strings, sep) ==
    IF Len(strings) = 1 THEN strings[1]
    ELSE SeparatedBy(SubSeq(strings, 1, Len(strings) - 1), sep)
            \o sep \o strings[Len(strings)]

\* C15 (output tagging): after a transcript is annotated, the line of each of
\* its segments is the original line followed by one tab and the field
\* TR:Z:<v>, v being `*` when get_annotations returned no identifier and
\* otherwise the returned identifiers joined by commas in the returned order;
\* all segments of the transcript carry the same tag, and the printed text
\* of the transcript consists of the tagged lines of all its segments.
C15_OutputTagging ==
    pc = "transcripts"
        => LET original == GetTranscripts(args.alignments, args.skip_tolerance,
                                          args.map_tolerance).transcripts
           IN  \A i \in 1..calls.annotated :
                  LET lines == ret.transcripts[i].segments
                      v == IF calls.represents[i] = <<>> THEN "*"
                           ELSE SeparatedBy(calls.represents[i], ",")
                      Tagged(k) == original[i].segments[k].sam \o "\t" \o "TR:Z:" \o v
                  IN  /\ Len(lines) = Len(original[i].segments)
                      /\ \A k \in 1..Len(lines) : lines[k].sam = Tagged(k)
                      /\ calls.printed[i] =
                            SeparatedBy([k \in 1..Len(lines) |-> Tagged(k)], "\n")

\* a transcript of two segments is annotated with several identifiers
C15_Witness ==
    /\ pc = "transcripts"
    /\ calls.annotated = 1
    /\ Len(ret.transcripts[1].segments) = 2
    /\ Len(calls.represents[1]) >= 2
    /\ ret.transcripts[1].segments[1].sam # ret.transcripts[1].segments[2].sam

\* C22 (GTF exon normalisation): every exon row with start > stop, whichever
\* row of its group it is, is stored with the two positions swapped, so that
\* every Region of every annotated transcript's variant has start <= stop
\* and the regions of the variants are the rows' pairs sorted ascending.
C22_ExonNormalisation ==
    (pc = "annotations" /\ ret = None)
        => /\ \A v \in 1..(Len(variants) - 1) :
                 \A r \in Range(variants[v].regions) : r.start <= r.stop
           /\ \A l \in ExonRows :
                 \E v \in 1..(Len(variants) - 1) :
                    /\ variants[v].identifier = l.transcript_id
                    /\ Region(Min({l.start, l.stop}), Max({l.start, l.stop}))
                          \in Range(variants[v].regions)

\* C24 (region list of a Segment): for a CIGAR other than `*` the region list
\* returned by _get_region_list is ascending by start, each region has
\* start <= stop and spans at least map_tolerance positions, and two
\* consecutive regions are separated by more than skip_tolerance positions;
\* the SpliceList of a Segment is built from it without OverlappingExonsError.
C24_RegionListShape ==
    /\ (pc = "regions" /\ args.sam.cigar # CigarStar /\ ret.raised = None)
          => LET regions == ret.region_list IN
             /\ \A i \in 1..Len(regions) :
                   /\ regions[i][1] <= regions[i][2]
                   /\ regions[i][2] - regions[i][1] + 1 >= args.map_tolerance
             /\ \A i \in 1..(Len(regions) - 1) :
                   /\ regions[i][1] < regions[i + 1][1]
                   /\ regions[i + 1][1] - regions[i][2] - 1 > args.skip_tolerance
    /\ pc = "segment"
          => /\ ret.raised # <<"OverlappingExonsError">>
             /\ ret.raised = None => ret.splice_list.raised = None

\* two regions are returned for a CIGAR with a D/N run longer than a positive
\* skip_tolerance
C24_Witness ==
    /\ pc = "regions"
    /\ args.skip_tolerance = 1
    /\ args.map_tolerance = 1
    /\ args.sam.cigar = <<<<1, "M">>, <<2, "D">>, <<1, "M">>>>
    /\ ret.raised = None
    /\ Len(ret.region_list) = 2

\* C23 (RNEXT chain structure): every group of several lines starts with its
\* only first-in-template line (0x40), goes on with middle lines (neither
\* 0x40 nor 0x80) and ends with at most one last-in-template line (0x80);
\* each line after the head has the QNAME that the RNEXT of the line before
\* it names, and no line follows a line whose RNEXT is `*`.
C23_ChainStructure ==
    pc = "grouped" =>
        \A k \in 1..Len(ret) :
            LET group == ret[k] IN
            Len(group) > 1 =>
                /\ IsFirstSegment(group[1])
                /\ \A i \in 2..Len(group) :
                      /\ ~IsFirstSegment(group[i])
                      /\ IsLastSegment(group[i]) => i = Len(group)
                      /\ group[i - 1].rnext # "*"
                      /\ Chained(group[i - 1], group[i])

-----------------------------------------------------------------------------
(* Junctions of a Transcript *)

\* the concatenation of the components of all segments, in segment order
AllComponents == Flatten([k \in 1..Len(segments) |-> segments[k].components])

\* the i-th and the j-th component are junctions that name each other as
\* complement
Complements(i, j) ==
    /\ IsJunction(AllComponents[i]) /\ IsJunction(AllComponents[j])
    /\ AllComponents[i].complement = AllComponents[j].id
    /\ AllComponents[j].complement = AllComponents[i].id

\* the i-th and the j-th component are adjacent junctions of opposite kinds
\* with has_complement set
WiredPair(i, j) ==
    /\ Abs(i - j) = 1
    /\ IsJunction(AllComponents[i]) /\ IsJunction(AllComponents[j])
    /\ AllComponents[i].type # AllComponents[j].type
    /\ AllComponents[i].has_complement /\ AllComponents[j].has_complement

\* C21 (complement wiring): after the construction of a Transcript two
\* junctions are each other's complement exactly when they are adjacent in
\* the concatenation of the segments' components, of opposite kinds and both
\* with has_complement set; the complement of a junction's complement is the
\* junction itself, no junction is the complement of two junctions, every
\* other junction has no complement, and the junctions view of each segment
\* shows the same junctions.
C21_ComplementWiring ==
    pc = "transcript"
        => LET n == Len(AllComponents)
               junctions == {i \in 1..n : IsJunction(AllComponents[i])}
           IN  /\ \A i, j \in junctions : Complements(i, j) <=> WiredPair(i, j)
               /\ \A i \in junctions :
                     AllComponents[i].complement # None
                         => \E j \in junctions : Complements(i, j)
               /\ \A i, j, k \in junctions :
                     (Complements(i, j) /\ Complements(i, k)) => j = k
               /\ \A i, j \in junctions :
                     AllComponents[i].id = AllComponents[j].id => i = j
               /\ \A s \in 1..Len(segments) :
                     segments[s].junctions =
                        FilterSeq(segments[s].components,
                                  {c \in Range(segments[s].components) : IsJunction(c)})

\* a Transcript of two segments: the end of the first is wired to the start
\* of the second, and the first holds two adjacent junctions between its
\* regions that are not wired
C21_Witness ==
    /\ pc = "transcript"
    /\ Len(segments) = 2
    /\ Len(segments[1].regions) = 2
    /\ LET last == Len(segments[1].components) IN
       /\ Complements(last, last + 1)
       /\ IsJunction(AllComponents[2]) /\ IsJunction(AllComponents[3])
       /\ ~Complements(2, 3)

====
